---- MODULE Spec2Model ----
(***************************************************************************)
(* A model of orbitalMotion.c (Schaub's orbital-mechanics library): the    *)
(* anomaly conversions, the two Newton-Raphson solvers, elem2rv / rv2elem  *)
(* and the perturbation accelerations.                                     *)
(*                                                                         *)
(* Numbers.  A C double is modelled by an extended rational                *)
(*     <<n, d, x>>  =  (n / d) * 10^x        (d > 0)                        *)
(* with <<0,0,0>> for NaN and <<1,0,0>>, <<-1,0,0>> for +Inf, -Inf.  The    *)
(* arithmetic is exact as long as numerator and denominator stay below    *)
(* Mantissa; a result that does not fit is rounded (truncated) to a        *)
(* decimal of four significant digits, as a double rounds to 53 bits.  It  *)
(* follows the IEEE rules for NaN and the infinities (0/0 = NaN, x/0 =     *)
(* Inf, every comparison with NaN is false).  There is no signed zero.     *)
(* The decimal exponent is what lets the tolerances 1e-12 and 1e-13 of the *)
(* source sit beside ordinary magnitudes in 32-bit integers.  The same     *)
(* number can have several representations: numbers are compared with     *)
(* REq, RLt, ..., never with =.                                            *)
(*                                                                         *)
(* libm.  sin, cos, acos, atan2, ... are not code of the repository; they  *)
(* are modelled by rational stand-ins that are exact at the angles whose   *)
(* sine and cosine are rational (multiples of pi/6 resp. pi/2) and have    *)
(* the domain, range, sign and monotonicity of the real functions.         *)
(***************************************************************************)
EXTENDS Integers, Sequences, FiniteSets, TLC

(***************************************************************************)
(* Integer helpers                                                         *)
(***************************************************************************)
IAbs(i) == IF i < 0 THEN -i ELSE i

ISgn(i) == IF i < 0 THEN -1 ELSE IF i > 0 THEN 1 ELSE 0

IMin(i, j) == IF i < j THEN i ELSE j

RECURSIVE GCD(_, _)
GCD(i, j) == IF j = 0 THEN i ELSE GCD(j, i % j)

RECURSIVE Pow10(_)
Pow10(k) == IF k <= 0 THEN 1 ELSE 10 * Pow10(k - 1)

\* the largest s with s * s <= q, found by bisection on lo..hi
RECURSIVE IsqrtIn(_, _, _)
IsqrtIn(q, lo, hi) ==
    IF lo >= hi THEN lo
    ELSE LET mid == (lo + hi + 1) \div 2
         IN  IF mid * mid <= q THEN IsqrtIn(q, mid, hi) ELSE IsqrtIn(q, lo, mid - 1)

Isqrt(q) == IsqrtIn(q, 0, IMin(q, 46340))

IsSquare(q) == Isqrt(q) * Isqrt(q) = q

\* the element of a one-element set: The({F(x) : x \in {v}}) is F at the value v,
\* with v computed once
The(S) == CHOOSE y \in S : TRUE

(***************************************************************************)
(* Extended rationals: the model of the C type double                      *)
(***************************************************************************)
NaN == <<0, 0, 0>>

PInf == <<1, 0, 0>>

NInf == <<-1, 0, 0>>

Zero == <<0, 1, 0>>

IsNaN(a) == a[2] = 0 /\ a[1] = 0

IsInf(a) == a[2] = 0 /\ a[1] # 0

IsFinite(a) == a[2] # 0

\* numerators and denominators are kept below Mantissa
Mantissa == Pow10(4)

\* n * 10^x / d with the factors of ten moved from n and d into x
RECURSIVE Strip(_, _, _)
Strip(n, d, x) ==
    IF d % 10 = 0 THEN Strip(n, d \div 10, x - 1)
    ELSE IF n % 10 = 0 THEN Strip(n \div 10, d, x + 1)
    ELSE <<n, d, x>>

\* the number of decimal digits of q >= 0
RECURSIVE Digits(_)
Digits(q) == IF q < 10 THEN 1 ELSE 1 + Digits(q \div 10)

\* N / d * 10^x, N > 0, truncated to a decimal of at most four digits
RECURSIVE Dec(_, _, _)
Dec(N, d, x) ==
    IF d >= Mantissa THEN Dec(N, d \div 10, x - 1)
    ELSE IF N >= 100000000 THEN Dec(N \div 10, d, x + 1)
    ELSE IF N < 10000000 THEN Dec(N * 10, d, x - 1)
    ELSE The({<<(N \div d) \div Pow10(k), 1, x + k>> :
                k \in {IF Digits(N \div d) > 4 THEN Digits(N \div d) - 4 ELSE 0}})

Norm(n, d, x) ==
    IF d = 0 THEN <<ISgn(n), 0, 0>>
    ELSE IF n = 0 THEN Zero
    ELSE The({IF IAbs(n \div g) < Mantissa /\ d \div g < Mantissa
              THEN Strip(n \div g, d \div g, x)
              ELSE The({Strip(ISgn(n) * r[1], 1, r[3]) :
                          r \in {Dec(IAbs(n \div g), d \div g, x)}}) :
                g \in {GCD(IAbs(n), d)}})

\* the double nearest to the decimal literal n / d
R(n, d) == Norm(n, d, 0)

\* the literal n e x, as in 1e-13
Rexp(n, x) == Norm(n, 1, x)

\* the integer k, |k| < Mantissa
RInt(k) == IF k = 0 THEN Zero ELSE Strip(k, 1, 0)

One == <<1, 1, 0>>

Two == <<2, 1, 0>>

RSgn(a) == ISgn(a[1])

RNeg(a) == <<-a[1], a[2], a[3]>>

RAbs(a) == <<IAbs(a[1]), a[2], a[3]>>

RMul(a, b) ==
    IF IsNaN(a) \/ IsNaN(b) THEN NaN
    ELSE IF IsInf(a) \/ IsInf(b) THEN <<RSgn(a) * RSgn(b), 0, 0>>
    ELSE LET g1 == GCD(IAbs(a[1]), b[2])
             g2 == GCD(IAbs(b[1]), a[2])
         IN  IF a[1] = 0 \/ b[1] = 0 THEN Zero
             ELSE Norm((a[1] \div g1) * (b[1] \div g2),
                       (a[2] \div g2) * (b[2] \div g1), a[3] + b[3])

RDiv(a, b) ==
    IF IsNaN(a) \/ IsNaN(b) THEN NaN
    ELSE IF IsInf(a) THEN (IF IsInf(b) THEN NaN
                           ELSE <<RSgn(a) * (IF RSgn(b) < 0 THEN -1 ELSE 1), 0, 0>>)
    ELSE IF IsInf(b) THEN Zero
    ELSE IF b[1] = 0 THEN <<RSgn(a), 0, 0>>
    ELSE RMul(a, <<ISgn(b[1]) * b[2], IAbs(b[1]), -b[3]>>)

\* a finite nonzero a as a decimal <<m, 1, y>> of at most four digits
AsDec(a) == The({<<ISgn(a[1]) * r[1], 1, r[3]>> : r \in {Dec(IAbs(a[1]), a[2], a[3])}})

\* the sum of two decimals of at most eight digits; an operand more than
\* four decades below the other is absorbed
AddDec(p, q) ==
    IF p[3] - q[3] > 4 THEN Strip(p[1], 1, p[3])
    ELSE IF q[3] - p[3] > 4 THEN Strip(q[1], 1, q[3])
    ELSE LET x == IMin(p[3], q[3])
         IN  Norm(p[1] * Pow10(p[3] - x) + q[1] * Pow10(q[3] - x), 1, x)

RAdd(a, b) ==
    IF IsNaN(a) \/ IsNaN(b) THEN NaN
    ELSE IF IsInf(a) THEN (IF IsInf(b) /\ a # b THEN NaN ELSE a)
    ELSE IF IsInf(b) THEN b
    ELSE IF a[1] = 0 THEN b
    ELSE IF b[1] = 0 THEN a
    ELSE LET x  == IMin(a[3], b[3])
             g  == GCD(a[2], b[2])
             ta == IAbs(a[1]) * (b[2] \div g)
             tb == IAbs(b[1]) * (a[2] \div g)
         IN  IF Digits(ta) + (a[3] - x) <= 9 /\ Digits(tb) + (b[3] - x) <= 9
             THEN Norm(ISgn(a[1]) * ta * Pow10(a[3] - x)
                         + ISgn(b[1]) * tb * Pow10(b[3] - x),
                       a[2] * (b[2] \div g), x)
             ELSE AddDec(AsDec(a), AsDec(b))

RSub(a, b) == RAdd(a, RNeg(b))

\* the sign of A * 10^k - B, for integers A, B > 0 and k >= 0
RECURSIVE CmpPow(_, _, _)
CmpPow(A, B, k) ==
    IF k = 0 THEN ISgn(A - B)
    ELSE IF A >= B THEN 1
    ELSE CmpPow(A * 10, B, k - 1)

\* the sign of a - b, for finite a, b > 0
CmpPos(a, b) ==
    LET A == a[1] * b[2]
        B == b[1] * a[2]
    IN  IF a[3] >= b[3] THEN CmpPow(A, B, a[3] - b[3])
        ELSE -CmpPow(B, A, b[3] - a[3])

\* the sign of a - b, for a, b not NaN
Cmp(a, b) ==
    IF IsInf(a) \/ IsInf(b)
    THEN ISgn((IF IsInf(a) THEN 2 * RSgn(a) ELSE 0) - (IF IsInf(b) THEN 2 * RSgn(b) ELSE 0))
    ELSE IF RSgn(a) # RSgn(b) THEN ISgn(RSgn(a) - RSgn(b))
    ELSE IF RSgn(a) = 0 THEN 0
    ELSE IF RSgn(a) > 0 THEN CmpPos(a, b)
    ELSE CmpPos(RNeg(b), RNeg(a))

\* the C comparisons: false as soon as an operand is NaN
RLt(a, b) == ~IsNaN(a) /\ ~IsNaN(b) /\ Cmp(a, b) < 0

RLe(a, b) == ~IsNaN(a) /\ ~IsNaN(b) /\ Cmp(a, b) <= 0

RGt(a, b) == RLt(b, a)

RGe(a, b) == RLe(b, a)

REq(a, b) == ~IsNaN(a) /\ ~IsNaN(b) /\ Cmp(a, b) = 0

\* the largest k in 0..4 for which q * 100^k stays a 32-bit integer
RECURSIVE SqrtDigits(_, _)
SqrtDigits(q, k) ==
    IF k >= 4 \/ q > 20000000 THEN k ELSE SqrtDigits(q * 100, k + 1)

\* sqrt: exact on the squares of rationals, truncated to a few digits elsewhere
RSqrt(a) ==
    IF IsNaN(a) \/ RSgn(a) < 0 THEN NaN
    ELSE IF IsInf(a) THEN PInf
    ELSE IF a[1] = 0 THEN Zero
    ELSE LET odd == a[3] % 2 # 0
             n   == IF odd THEN a[1] * 10 ELSE a[1]
             x   == IF odd THEN a[3] - 1 ELSE a[3]
             k   == SqrtDigits(n * a[2], 0)
         IN  IF IsSquare(n) /\ IsSquare(a[2])
             THEN Norm(Isqrt(n), Isqrt(a[2]), x \div 2)
             ELSE Norm(Isqrt(n * a[2] * Pow10(2 * k)), a[2] * Pow10(k), x \div 2)

\* the integer floor of a finite a
RFloor(a) ==
    IF a[3] >= 0 THEN (a[1] * Pow10(a[3])) \div a[2]
    ELSE a[1] \div (a[2] * Pow10(-a[3]))

\* pow(a, k) for an integer exponent k >= 0
RECURSIVE RPow(_, _)
RPow(a, k) == IF k = 0 THEN One ELSE RMul(a, RPow(a, k - 1))

(***************************************************************************)
(* libm stand-ins (angles in radians, M_PI a rational)                     *)
(***************************************************************************)
\* RigidBodyKinematics.h: #define M_PI 3.141592653589793
MPI == <<355, 113, 0>>

\* 2 * M_PI
TwoPi == Strip(710, 113, 0)

\* M_PI / 2
HalfPi == <<355, 226, 0>>

\* sin: Bhaskara's rational formula on each half turn; exact at the multiples
\* of pi/6 whose sine is rational (0, 1/2, 1)
Sin(a) ==
    IF ~IsFinite(a) THEN NaN
    ELSE \* t = a / pi = k + u, k the half turn and u in [0, 1); w = u (1 - u)
         The({The({The({The({IF k % 2 = 0 THEN s ELSE RNeg(s) :
                               s \in {RDiv(RMul(RInt(16), w),
                                           RSub(RInt(5), RMul(RInt(4), w)))}}) :
                          w \in {RMul(u, RSub(One, u))}}) :
                     k \in {RFloor(t)}, u \in {RSub(t, RInt(RFloor(t)))}}) :
                t \in {RDiv(a, MPI)}})

Cos(a) == Sin(RAdd(a, HalfPi))

Tan(a) == RDiv(Sin(a), Cos(a))

\* acos: [-1, 1] -> [0, pi], strictly decreasing; exact at -1, -1/2, 0, 1/2, 1
\* and linear between them; NaN outside [-1, 1]
Acos(x) ==
    IF IsNaN(x) \/ RGt(RAbs(x), One) THEN NaN
    ELSE IF RGe(x, <<1, 2, 0>>) THEN RMul(RMul(<<2, 3, 0>>, MPI), RSub(One, x))
    ELSE IF RGe(x, <<-1, 2, 0>>) THEN RSub(HalfPi, RMul(RDiv(MPI, RInt(3)), x))
    ELSE RSub(MPI, RMul(RMul(<<2, 3, 0>>, MPI), RAdd(One, x)))

\* atan2: (-pi, pi]; exact on the axes and the diagonals, linear in the slope
\* within an octant; atan2(0, 0) = 0 as for +0, +0
Atan2(y, x) ==
    IF IsNaN(y) \/ IsNaN(x) THEN NaN
    ELSE IF RSgn(y) = 0 /\ RSgn(x) = 0 THEN Zero
    ELSE \* phi: the angle of (|x|, |y|) in the first quadrant; q: that of (x, |y|)
         The({The({IF RSgn(y) >= 0 THEN q ELSE RNeg(q) :
                     q \in {IF RSgn(x) >= 0 THEN phi ELSE RSub(MPI, phi)}}) :
                phi \in {IF IsInf(x) /\ IsInf(y) THEN RDiv(MPI, RInt(4))
                         ELSE IF RGe(RAbs(x), RAbs(y))
                         THEN RMul(RDiv(MPI, RInt(4)), RDiv(RAbs(y), RAbs(x)))
                         ELSE RSub(HalfPi, RMul(RDiv(MPI, RInt(4)), RDiv(RAbs(x), RAbs(y))))}})

Atan(x) == Atan2(x, One)

\* sinh, cosh: the series up to the cubic resp. quadratic term
Sinh(x) == RAdd(x, RDiv(RPow(x, 3), RInt(6)))

Cosh(x) == RAdd(One, RDiv(RMul(x, x), Two))

\* tanh: odd, increasing, |tanh| < 1, slope 1 at 0
Tanh(x) ==
    IF IsNaN(x) THEN NaN
    ELSE IF IsInf(x) THEN RInt(RSgn(x))
    ELSE RDiv(x, RAdd(One, RAbs(x)))

\* log: only its domain and sign are modelled (NaN below 0, -Inf at 0,
\* log(1) = 0, increasing)
Log(x) ==
    IF IsNaN(x) \/ RSgn(x) < 0 THEN NaN
    ELSE IF RSgn(x) = 0 THEN NInf
    ELSE IF IsInf(x) THEN PInf
    ELSE IF RGe(x, One) THEN RSub(x, One)
    ELSE RSub(One, RDiv(One, x))

(***************************************************************************)
(* Vector algebra primitives (vector3D: norm, dot, cross, mult, add, equal,*)
(* set3).  A vector is a triple; the C arrays are indexed 1..3 as well.    *)
(***************************************************************************)
set3(x, y, z) == <<x, y, z>>

equal(v) == v

dot(a, b) == RAdd(RAdd(RMul(a[1], b[1]), RMul(a[2], b[2])), RMul(a[3], b[3]))

norm(v) == RSqrt(dot(v, v))

cross(a, b) ==
    <<RSub(RMul(a[2], b[3]), RMul(a[3], b[2])),
      RSub(RMul(a[3], b[1]), RMul(a[1], b[3])),
      RSub(RMul(a[1], b[2]), RMul(a[2], b[1]))>>

mult(s, v) == <<RMul(s, v[1]), RMul(s, v[2]), RMul(s, v[3])>>

add(a, b) == <<RAdd(a[1], b[1]), RAdd(a[2], b[2]), RAdd(a[3], b[3])>>

\* inverse hyperbolic functions of the vector library, through log and sqrt
arc_cosh(z) == Log(RAdd(z, RMul(RSqrt(RAdd(z, One)), RSqrt(RSub(z, One)))))

arc_tanh(z) == RMul(<<1, 2, 0>>, RSub(Log(RAdd(One, z)), Log(RSub(One, z))))

(***************************************************************************)
(* Comparison of returned values                                           *)
(***************************************************************************)
AllNaN(v) == IsNaN(v[1]) /\ IsNaN(v[2]) /\ IsNaN(v[3])

NoNaN(v) == ~IsNaN(v[1]) /\ ~IsNaN(v[2]) /\ ~IsNaN(v[3])

\* x is y up to a relative error of one percent
Near(x, y) == RLe(RAbs(RSub(x, y)), RMul(Rexp(1, -2), RAbs(y)))

\* x and y are the same double: both not a number, or equal
SameValue(x, y) == (IsNaN(x) /\ IsNaN(y)) \/ (~IsNaN(x) /\ ~IsNaN(y) /\ REq(x, y))

SameVector(u, v) == \A j \in 1..3 : SameValue(u[j], v[j])

\* u and v agree component by component up to one percent
NearVector(u, v) == \A j \in 1..3 : SameValue(u[j], v[j]) \/ Near(u[j], v[j])

(***************************************************************************)
(* Anomaly conversions.  Each returns [val, msgs]: the value returned and  *)
(* the lines written by printf.                                            *)
(***************************************************************************)
Quiet(v) == [val |-> v, msgs |-> <<>>]

Loud(v, m) == [val |-> v, msgs |-> m]

\* E2f with the circular orbit e = 0 shut out of the domain
E2f_ExcludesCircular(Ecc, e) ==
    IF RGt(e, Zero) /\ RLt(e, One)
    THEN Quiet(RMul(Two, Atan2(RMul(RSqrt(RAdd(One, e)), Sin(RDiv(Ecc, Two))),
                               RMul(RSqrt(RSub(One, e)), Cos(RDiv(Ecc, Two))))))
    ELSE Loud(NaN, <<"ERROR: E2f() received e", "The value of e should be 0 <= e < 1.">>)

E2f(Ecc, e) ==
    IF RGe(e, Zero) /\ RLt(e, One)
    THEN Quiet(RMul(Two, Atan2(RMul(RSqrt(RAdd(One, e)), Sin(RDiv(Ecc, Two))),
                               RMul(RSqrt(RSub(One, e)), Cos(RDiv(Ecc, Two))))))
    ELSE Loud(NaN, <<"ERROR: E2f() received e", "The value of e should be 0 <= e < 1.">>)

E2M(Ecc, e) ==
    IF RGe(e, Zero) /\ RLt(e, One)
    THEN Quiet(RSub(Ecc, RMul(e, Sin(Ecc))))
    ELSE Loud(NaN, <<"ERROR: E2M() received e", "The value of e should be 0 <= e < 1.">>)

f2E(f, e) ==
    IF RGe(e, Zero) /\ RLt(e, One)
    THEN Quiet(RMul(Two, Atan2(RMul(RSqrt(RSub(One, e)), Sin(RDiv(f, Two))),
                               RMul(RSqrt(RAdd(One, e)), Cos(RDiv(f, Two))))))
    ELSE Loud(NaN, <<"ERROR: f2E() received e", "The value of e should be 0 <= e < 1.">>)

f2H(f, e) ==
    IF RGt(e, One)
    THEN Quiet(RMul(Two, arc_tanh(RMul(RSqrt(RDiv(RSub(e, One), RAdd(e, One))),
                                       Tan(RDiv(f, Two))))))
    ELSE Loud(NaN, <<"ERROR: f2H() received e", "The value of e should be 1 < e.">>)

H2f(H, e) ==
    IF RGt(e, One)
    THEN Quiet(RMul(Two, Atan(RMul(RSqrt(RDiv(RAdd(e, One), RSub(e, One))),
                                   Tanh(RDiv(H, Two))))))
    ELSE Loud(NaN, <<"ERROR: H2f() received e", "The value of e should be 1 < e">>)

H2N(H, e) ==
    IF RGt(e, One)
    THEN Quiet(RSub(RMul(e, Sinh(H)), H))
    ELSE Loud(NaN, <<"ERROR: H2N() received e", "The value of e should be 1 < e.">>)

(***************************************************************************)
(* elem2rv and rv2elem.  The classicElements structure is the record       *)
(* [a, e, i, Omega, omega, anom].  Besides what the C function writes      *)
(* through its pointers, each operator reports the branch it executed and  *)
(* the locals the claims speak about.                                      *)
(***************************************************************************)
Elements(a, e, i, AN, AP, f) ==
    [a |-> a, e |-> e, i |-> i, Omega |-> AN, omega |-> AP, anom |-> f]

\* rectilinear elliptic orbit case: the anomaly is the eccentric anomaly
elem2rv_rectilinear(mu, a, e, cosAN, sinAN, cosAP, sinAP, cosi, sini, cosEcc, sinEcc) ==
    The({The({[branch |-> "rectilinear", p |-> NaN,
               rVec |-> mult(r, ir),
               vVec |-> IF RGt(sinEcc, Zero) THEN mult(RNeg(v), ir) ELSE mult(v, ir)] :
                v \in {RSqrt(RSub(RDiv(RMul(Two, mu), r), RDiv(mu, a)))}}) :
            r  \in {RMul(a, RSub(One, RMul(e, cosEcc)))},
            ir \in {<<RSub(RMul(cosAN, cosAP), RMul(RMul(sinAN, sinAP), cosi)),
                      RAdd(RMul(sinAN, cosAP), RMul(RMul(cosAN, sinAP), cosi)),
                      RMul(sinAP, sini)>>}})

\* parabolic case (p = 2 rp) and the elliptic and hyperbolic cases
elem2rv_general(mu, a, e, parabolic, cosAN, sinAN, cosAP, sinAP, cosi, sini, cosf, costheta, sintheta) ==
    The({The({[branch |-> IF parabolic THEN "parabolic" ELSE "general", p |-> p,
               rVec |-> <<RMul(r, RSub(RMul(cosAN, costheta),
                                       RMul(RMul(sinAN, sintheta), cosi))),
                          RMul(r, RAdd(RMul(sinAN, costheta),
                                       RMul(RMul(cosAN, sintheta), cosi))),
                          RMul(r, RMul(sintheta, sini))>>,
               vVec |-> <<RMul(k, RAdd(RMul(cosAN, s), RMul(RMul(sinAN, c), cosi))),
                          RMul(k, RSub(RMul(sinAN, s), RMul(RMul(cosAN, c), cosi))),
                          RMul(k, RMul(RNeg(c), sini))>>] :
                r \in {RDiv(p, RAdd(One, RMul(e, cosf)))},
                k \in {RDiv(RNeg(mu), RSqrt(RMul(mu, p)))},
                s \in {RAdd(sintheta, RMul(e, sinAP))},
                c \in {RAdd(costheta, RMul(e, cosAP))}}) :
            p \in {IF parabolic THEN RMul(Two, RNeg(a))
                   ELSE RMul(a, RSub(One, RMul(e, e)))}})

\* elem2rv taking e == 1 for the rectilinear ellipse whatever the sign of a
elem2rv_AnyAIsRectilinear(mu, elements) ==
    The({IF REq(elements.e, One)
         THEN elem2rv_rectilinear(mu, elements.a, elements.e, cosAN, sinAN, cosAP, sinAP,
                                  cosi, sini, cosf, sinf)
         ELSE elem2rv_general(mu, elements.a, elements.e,
                              REq(elements.e, One) /\ RLt(elements.a, Zero),
                              cosAN, sinAN, cosAP, sinAP, cosi, sini,
                              cosf, costheta, sintheta) :
            cosAN \in {Cos(elements.Omega)}, sinAN \in {Sin(elements.Omega)},
            cosAP \in {Cos(elements.omega)}, sinAP \in {Sin(elements.omega)},
            cosi  \in {Cos(elements.i)},     sini  \in {Sin(elements.i)},
            cosf  \in {Cos(elements.anom)},  sinf  \in {Sin(elements.anom)},
            costheta \in {Cos(RAdd(elements.omega, elements.anom))},
            sintheta \in {Sin(RAdd(elements.omega, elements.anom))}})

elem2rv(mu, elements) ==
    The({IF REq(elements.e, One) /\ RGt(elements.a, Zero)
         THEN elem2rv_rectilinear(mu, elements.a, elements.e, cosAN, sinAN, cosAP, sinAP,
                                  cosi, sini, cosf, sinf)
         ELSE elem2rv_general(mu, elements.a, elements.e,
                              REq(elements.e, One) /\ RLt(elements.a, Zero),
                              cosAN, sinAN, cosAP, sinAP, cosi, sini,
                              cosf, costheta, sintheta) :
            cosAN \in {Cos(elements.Omega)}, sinAN \in {Sin(elements.Omega)},
            cosAP \in {Cos(elements.omega)}, sinAP \in {Sin(elements.omega)},
            cosi  \in {Cos(elements.i)},     sini  \in {Sin(elements.i)},
            cosf  \in {Cos(elements.anom)},  sinf  \in {Sin(elements.anom)},
            costheta \in {Cos(RAdd(elements.omega, elements.anom))},
            sintheta \in {Sin(RAdd(elements.omega, elements.anom))}})

\* define a small number
eps == <<1, 1, -12>>

\* rv2elem_angles with the node taken from atan2(ih[1], ih[2])
rv2elem_angles_NodeSign(rVec, vVec, r, ir, h, ai, e0, a, e, conic, rect, circ, ie, ih) ==
    LET ip   == cross(ih, ie)
        Ecc0 == Acos(RSub(One, RMul(r, ai)))
        Ecc  == IF RGt(dot(rVec, vVec), Zero) THEN RSub(RMul(Two, MPI), Ecc0) ELSE Ecc0
        H0   == arc_cosh(RAdd(RMul(r, ai), One))
        H    == IF RLt(dot(rVec, vVec), Zero) THEN RSub(RMul(Two, MPI), H0) ELSE H0
    IN  [a |-> a, e |-> e,
         Omega |-> Atan2(ih[1], ih[2]),
         i     |-> Acos(ih[3]),
         omega |-> Atan2(ie[3], ip[3]),
         anom  |-> IF rect THEN (IF RGt(ai, Zero) THEN Ecc ELSE H)
                   ELSE Atan2(dot(cross(ie, ir), ih), dot(ie, ir)),
         shape |-> IF conic THEN "conic" ELSE "parabolic",
         frame |-> IF rect THEN "rectilinear" ELSE IF circ THEN "circular" ELSE "general",
         anomaly |-> IF rect THEN (IF RGt(ai, Zero) THEN "eccentric" ELSE "hyperbolic")
                     ELSE "true",
         r |-> r, h |-> h, ai |-> ai, e0 |-> e0, acoshArg |-> RAdd(RMul(r, ai), One),
         ie |-> ie, ih |-> ih, ip |-> ip]

\* the orientation angles and the current anomaly
rv2elem_angles(rVec, vVec, r, ir, h, ai, e0, a, e, conic, rect, circ, ie, ih) ==
    LET ip   == cross(ih, ie)
        Ecc0 == Acos(RSub(One, RMul(r, ai)))
        Ecc  == IF RGt(dot(rVec, vVec), Zero) THEN RSub(RMul(Two, MPI), Ecc0) ELSE Ecc0
        H0   == arc_cosh(RAdd(RMul(r, ai), One))
        H    == IF RLt(dot(rVec, vVec), Zero) THEN RSub(RMul(Two, MPI), H0) ELSE H0
    IN  [a |-> a, e |-> e,
         Omega |-> Atan2(ih[1], RNeg(ih[2])),
         i     |-> Acos(ih[3]),
         omega |-> Atan2(ie[3], ip[3]),
         anom  |-> IF rect THEN (IF RGt(ai, Zero) THEN Ecc ELSE H)
                   ELSE Atan2(dot(cross(ie, ir), ih), dot(ie, ir)),
         shape |-> IF conic THEN "conic" ELSE "parabolic",
         frame |-> IF rect THEN "rectilinear" ELSE IF circ THEN "circular" ELSE "general",
         anomaly |-> IF rect THEN (IF RGt(ai, Zero) THEN "eccentric" ELSE "hyperbolic")
                     ELSE "true",
         r |-> r, h |-> h, ai |-> ai, e0 |-> e0, acoshArg |-> RAdd(RMul(r, ai), One),
         ie |-> ie, ih |-> ih, ip |-> ip]

\* rv2elem_frame without the circular case: ie always from the eccentricity vector
rv2elem_frame_NoCircularCase(mu, rVec, vVec, r, ir, hVec, h, cVec, ai, e0, a, e, conic) ==
    LET rect == RLt(h, eps)
        circ == ~RGt(RAbs(e), eps)
        ih1  == cross(ir, set3(Zero, Zero, One))
        ip1  == cross(ir, set3(Zero, One, Zero))
    IN  The({rv2elem_angles(rVec, vVec, r, ir, h, ai, e0, a, e, conic, rect, circ, ie, ih) :
                ie \in {IF rect THEN equal(ir)
                        ELSE mult(RDiv(RDiv(One, mu), e), cVec)},
                ih \in {IF rect
                        THEN (IF RGt(norm(ih1), norm(ip1))
                              THEN mult(RDiv(One, norm(ih1)), ih1)
                              ELSE mult(RDiv(One, norm(ip1)), ip1))
                        ELSE mult(RDiv(One, h), hVec)}})

\* the perifocal frame: rectilinear, circular or general orbit
rv2elem_frame(mu, rVec, vVec, r, ir, hVec, h, cVec, ai, e0, a, e, conic) ==
    LET rect == RLt(h, eps)
        circ == ~RGt(RAbs(e), eps)
        ih1  == cross(ir, set3(Zero, Zero, One))
        ip1  == cross(ir, set3(Zero, One, Zero))
    IN  The({rv2elem_angles(rVec, vVec, r, ir, h, ai, e0, a, e, conic, rect, circ, ie, ih) :
                ie \in {IF rect THEN equal(ir)
                        ELSE IF circ THEN equal(ir)
                        ELSE mult(RDiv(RDiv(One, mu), e), cVec)},
                ih \in {IF rect
                        THEN (IF RGt(norm(ih1), norm(ip1))
                              THEN mult(RDiv(One, norm(ih1)), ih1)
                              ELSE mult(RDiv(One, norm(ip1)), ip1))
                        ELSE mult(RDiv(One, h), hVec)}})

\* rv2elem_shape with the parabolic tolerance strict: |ai| == eps taken as a conic
rv2elem_shape_ConicAtTolerance(mu, rVec, vVec, r, ir, hVec, h, cVec) ==
    The({The({rv2elem_frame(mu, rVec, vVec, r, ir, hVec, h, cVec, ai, e0, a, e,
                            RGe(RAbs(ai), eps)) :
                a \in {IF RGe(RAbs(ai), eps) THEN RDiv(One, ai)
                       ELSE RNeg(RDiv(RDiv(RMul(h, h), mu), Two))},
                e \in {IF RGe(RAbs(ai), eps) THEN e0 ELSE One}}) :
            e0 \in {RDiv(norm(cVec), mu)},
            ai \in {RSub(RDiv(Two, r), RDiv(dot(vVec, vVec), mu))}})

\* semi-major axis and eccentricity from the energy
rv2elem_shape(mu, rVec, vVec, r, ir, hVec, h, cVec) ==
    The({The({rv2elem_frame(mu, rVec, vVec, r, ir, hVec, h, cVec, ai, e0, a, e,
                            RGt(RAbs(ai), eps)) :
                a \in {IF RGt(RAbs(ai), eps) THEN RDiv(One, ai)
                       ELSE RNeg(RDiv(RDiv(RMul(h, h), mu), Two))},
                e \in {IF RGt(RAbs(ai), eps) THEN e0 ELSE One}}) :
            e0 \in {RDiv(norm(cVec), mu)},
            ai \in {RSub(RDiv(Two, r), RDiv(dot(vVec, vVec), mu))}})

rv2elem(mu, rVec, vVec) ==
    The({The({rv2elem_shape(mu, rVec, vVec, r, ir, hVec, h, cVec) :
                ir   \in {mult(RDiv(One, r), rVec)},
                h    \in {norm(hVec)},
                \* the eccentricity vector
                cVec \in {add(cross(vVec, hVec), mult(RDiv(RNeg(mu), r), rVec))}}) :
            r \in {norm(rVec)}, hVec \in {cross(rVec, vVec)}})

(***************************************************************************)
(* State: one call at a time.  fn is the function being executed ("idle"   *)
(* between calls), args its arguments, ret the value it returned, diag the *)
(* lines it wrote with printf, pc the position within the call.  E1, dE    *)
(* and count are the locals of M2E (H1, dH and count in N2H).              *)
(***************************************************************************)
VARIABLES fn, args, ret, diag, pc, E1, dE, count

vars == <<fn, args, ret, diag, pc, E1, dE, count>>

Init ==
    /\ fn = "idle"
    /\ args = <<>>
    /\ ret = <<>>
    /\ diag = <<>>
    /\ pc = "idle"
    /\ E1 = Zero
    /\ dE = Zero
    /\ count = 0

\* a call that runs to its return in one step
Call(f, a, out) ==
    /\ fn' = f
    /\ args' = a
    /\ ret' = out.val
    /\ diag' = out.msgs
    /\ pc' = "done"
    /\ UNCHANGED <<E1, dE, count>>

\* the caller takes the result; the next call starts from a fresh frame
Return ==
    /\ pc = "done"
    /\ fn' = "idle"
    /\ args' = <<>>
    /\ ret' = <<>>
    /\ diag' = <<>>
    /\ pc' = "idle"
    /\ E1' = Zero
    /\ dE' = Zero
    /\ count' = 0

(***************************************************************************)
(* Inputs of the anomaly conversions                                       *)
(***************************************************************************)
\* eccentricities on both sides of, and on, the domain boundaries 0 and 1
EccValues ==
    {R(-1, 2), Rexp(-1, -12), Zero, Rexp(1, -12), R(1, 2), R(9, 10), One,
     R(11, 10), R(3, 2), R(5, 3), NaN, PInf}

\* angles: multiples of pi/6 over (-2 pi, 2 pi)
AngleSteps == 2

AngleValues == {RMul(R(k, 6), MPI) : k \in (0 - 3 * AngleSteps)..(3 * AngleSteps)}

E2f_Call == \E Ecc \in AngleValues, e \in EccValues : pc = "idle" /\ Call("E2f", <<Ecc, e>>, E2f(Ecc, e))

E2M_Call == \E Ecc \in AngleValues, e \in EccValues : pc = "idle" /\ Call("E2M", <<Ecc, e>>, E2M(Ecc, e))

f2E_Call == \E f \in AngleValues, e \in EccValues : pc = "idle" /\ Call("f2E", <<f, e>>, f2E(f, e))

f2H_Call == \E f \in AngleValues, e \in EccValues : pc = "idle" /\ Call("f2H", <<f, e>>, f2H(f, e))

H2f_Call == \E H \in AngleValues, e \in EccValues : pc = "idle" /\ Call("H2f", <<H, e>>, H2f(H, e))

H2N_Call == \E H \in AngleValues, e \in EccValues : pc = "idle" /\ Call("H2N", <<H, e>>, H2N(H, e))

(***************************************************************************)
(* M2E and N2H: the Newton-Raphson loops, one action per iteration.        *)
(* The step dE = (E1 - e sin(E1) - M) / (1 - e cos(E1)) (and its sinh/cosh *)
(* counterpart) is a double computed through libm; what the loop does with *)
(* it depends only on fabs(dE) > small, so the step is drawn from a set    *)
(* holding values on both sides of, and on, the tolerance, of both signs.  *)
(* A step above the tolerance is negative (an overshoot) only during the   *)
(* first SignedSteps iterations of a call.                                 *)
(***************************************************************************)
small == <<1, 1, -13>>

max == 200

SignedSteps == 2

StepValues(k) ==
    {Zero, small, RNeg(small), RMul(Two, small)}
        \cup (IF k < SignedSteps THEN {RMul(RInt(-3), small)} ELSE {})

\* mean anomalies the solvers are started from
MeanValues == {Zero, RMul(RInt(3), small)}

\* eccentricities the solvers are called with
SolverEccValues == {R(-1, 2), Zero, R(1, 2), One, R(3, 2), NaN}

M2E_Call ==
    \E M \in MeanValues, e \in SolverEccValues :
        /\ pc = "idle"
        /\ fn' = "M2E"
        /\ args' = <<M, e>>
        /\ count' = 0
        /\ ret' = <<>>
        /\ IF RGe(e, Zero) /\ RLt(e, One)
           THEN /\ dE' = RMul(RInt(10), small)
                /\ E1' = M
                /\ diag' = <<>>
                /\ pc' = "while"
           ELSE /\ dE' = RMul(RInt(10), small)
                /\ E1' = NaN
                /\ diag' = <<"ERROR: M2E() received e", "The value of e should be 0 <= e <= 1.">>
                /\ pc' = "return"

\* M2E's loop body returning the error sentinel when the cap is reached
M2E_Iterate_CapIsError ==
    /\ fn = "M2E"
    /\ pc = "while"
    /\ RGt(RAbs(dE), small)
    /\ \E step \in StepValues(count) :
        /\ count' = count + 1
        /\ IF count + 1 > max
           THEN /\ diag' = Append(diag, "iteration error in M2E")
                /\ dE' = Zero
                /\ E1' = NaN
           ELSE /\ diag' = diag
                /\ dE' = step
                /\ E1' = RSub(E1, step)
    /\ UNCHANGED <<fn, args, ret, pc>>

\* one pass through the body of the while loop of M2E
M2E_Iterate ==
    /\ fn = "M2E"
    /\ pc = "while"
    /\ RGt(RAbs(dE), small)
    /\ \E step \in StepValues(count) :
        /\ E1' = RSub(E1, step)
        /\ count' = count + 1
        /\ IF count + 1 > max
           THEN /\ diag' = Append(diag, "iteration error in M2E")
                /\ dE' = Zero
           ELSE /\ diag' = diag
                /\ dE' = step
    /\ UNCHANGED <<fn, args, ret, pc>>

N2H_Call ==
    \E N \in MeanValues, e \in SolverEccValues :
        /\ pc = "idle"
        /\ fn' = "N2H"
        /\ args' = <<N, e>>
        /\ count' = 0
        /\ ret' = <<>>
        /\ IF RGt(e, One)
           THEN /\ dE' = RMul(RInt(10), small)
                /\ E1' = N
                /\ diag' = <<>>
                /\ pc' = "while"
           ELSE /\ dE' = RMul(RInt(10), small)
                /\ E1' = NaN
                /\ diag' = <<"ERROR: N2H() received e", "The value of e should be 0 <= e <= 1.">>
                /\ pc' = "return"

\* one pass through the body of the while loop of N2H
N2H_Iterate ==
    /\ fn = "N2H"
    /\ pc = "while"
    /\ RGt(RAbs(dE), small)
    /\ \E step \in StepValues(count) :
        /\ E1' = RSub(E1, step)
        /\ count' = count + 1
        /\ IF count + 1 > max
           THEN /\ diag' = Append(diag, "iteration error in N2H")
                /\ dE' = Zero
           ELSE /\ diag' = diag
                /\ dE' = step
    /\ UNCHANGED <<fn, args, ret, pc>>

\* the loop condition fails: control leaves the while loop
Solver_Exit ==
    /\ fn \in {"M2E", "N2H"}
    /\ pc = "while"
    /\ ~RGt(RAbs(dE), small)
    /\ pc' = "return"
    /\ UNCHANGED <<fn, args, ret, diag, E1, dE, count>>

\* return E1 (return H1)
Solver_Return ==
    /\ fn \in {"M2E", "N2H"}
    /\ pc = "return"
    /\ ret' = E1
    /\ pc' = "done"
    /\ UNCHANGED <<fn, args, diag, E1, dE, count>>

NextAnom ==
    \/ E2f_Call \/ E2M_Call \/ f2E_Call \/ f2H_Call \/ H2f_Call \/ H2N_Call
    \/ M2E_Call \/ M2E_Iterate \/ N2H_Call \/ N2H_Iterate
    \/ Solver_Exit \/ Solver_Return \/ Return

SpecAnom == Init /\ [][NextAnom]_vars

\* a call that has started runs on: each step of a solver is taken eventually
FairAnom ==
    /\ SpecAnom
    /\ WF_vars(M2E_Iterate) /\ WF_vars(N2H_Iterate)
    /\ WF_vars(Solver_Exit) /\ WF_vars(Solver_Return)

(***************************************************************************)
(* Claims about the anomaly conversions and the solvers                    *)
(***************************************************************************)
EllipticFamily == {"E2f", "f2E", "E2M", "M2E"}

HyperbolicFamily == {"f2H", "H2f", "H2N", "N2H"}

Solvers == {"M2E", "N2H"}

\* the eccentricity domain of the family of function f
InDomain(f, e) ==
    IF f \in EllipticFamily THEN RLe(Zero, e) /\ RLt(e, One) ELSE RLt(One, e)

\* the first diagnostic line of a domain error of f
ErrorHead(f) ==
    CASE f = "E2f" -> "ERROR: E2f() received e"
      [] f = "f2E" -> "ERROR: f2E() received e"
      [] f = "E2M" -> "ERROR: E2M() received e"
      [] f = "M2E" -> "ERROR: M2E() received e"
      [] f = "f2H" -> "ERROR: f2H() received e"
      [] f = "H2f" -> "ERROR: H2f() received e"
      [] f = "H2N" -> "ERROR: H2N() received e"
      [] f = "N2H" -> "ERROR: N2H() received e"

\* the finished call returned NaN and wrote the two lines of a domain error
ErrorOutcome == IsNaN(ret) /\ Len(diag) = 2 /\ diag[1] = ErrorHead(fn)

AnomalyCallDone == pc = "done" /\ fn \in EllipticFamily \cup HyperbolicFamily

C3_AtMost200Updates == fn \in Solvers => count <= 200

\* the loop of the running solver was ended by the iteration cap
CapEnded == fn \in Solvers /\ pc \in {"return", "done"} /\ count > max

C14_RectilinearEllipseAccepted ==
    /\ pc = "done" /\ fn = "E2M" /\ REq(args[2], One) =>
            /\ ~IsNaN(ret) /\ REq(ret, RSub(args[1], Sin(args[1])))
            /\ diag = <<>>
    /\ pc = "done" /\ fn = "M2E" /\ REq(args[2], One) =>
            /\ ~IsNaN(ret)
            /\ \A k \in 1..Len(diag) : diag[k] # ErrorHead("M2E")

\* M2E called with e == 1 has returned NaN and written the diagnostic whose
\* second line gives the range as 0 <= e <= 1
C14_Witness ==
    /\ pc = "done" /\ fn = "M2E" /\ REq(args[2], One)
    /\ IsNaN(ret) /\ count = 0
    /\ diag = <<"ERROR: M2E() received e", "The value of e should be 0 <= e <= 1.">>

(***************************************************************************)
(* Calls of elem2rv and rv2elem, and of rv2elem on the output of elem2rv   *)
(***************************************************************************)
\* gravitational parameters
MuValues == {One, R(9, 1)}

\* (a, e): circular, elliptic, a far elliptic orbit with 1/a below 1e-12,
\* rectilinear elliptic, a = 0 with e = 1, parabolic (a = -rp), hyperbolic
ShapeValues ==
    {<<One, Zero>>, <<One, R(3, 5)>>, <<R(4, 1), R(4, 5)>>, <<Rexp(4, 12), R(3, 5)>>,
     <<One, One>>, <<R(4, 1), One>>, <<Zero, One>>,
     <<R(-2, 1), One>>, <<R(-1, 2), One>>,
     <<R(-1, 1), R(5, 4)>>, <<R(-4, 1), R(5, 3)>>}

\* the angle of k quarter turns
Quarter(k) == RMul(R(k, 2), MPI)

InclinationValues == {Quarter(0), Quarter(1)}

NodeValues == {Quarter(0), Quarter(1), Quarter(3)}

PeriapsisValues == {Quarter(0), Quarter(1)}

AnomalyValues == {Quarter(0), Quarter(1), Quarter(2), Quarter(3)}

ElementValues ==
    {Elements(s[1], s[2], i, AN, AP, f) :
        s \in ShapeValues, i \in InclinationValues, AN \in NodeValues,
        AP \in PeriapsisValues, f \in AnomalyValues}

\* positions: near the focus along each axis and off the axes, and far
\* enough for 2/r to reach the tolerance 1e-12
PositionValues ==
    {<<One, Zero, Zero>>, <<Two, Zero, Zero>>, <<Zero, Two, Zero>>, <<Zero, Zero, Two>>,
     <<R(3, 1), R(4, 1), Zero>>, <<Rexp(1, 12), Zero, Zero>>, <<Rexp(2, 12), Zero, Zero>>,
     <<Rexp(4, 12), Zero, Zero>>}

\* speeds along a line of motion
SpeedValues ==
    {Zero, Rexp(1, -13), Rexp(1, -6), R(1, 2), One, R(-1, 1), Two, R(-2, 1), R(3, 1)}

\* velocities: along the x, y and z axes, and along the position <<3, 4, 0>>
VelocityValues ==
    UNION {{<<s, Zero, Zero>>, <<Zero, s, Zero>>, <<Zero, Zero, s>>,
            <<RMul(R(3, 5), s), RMul(R(4, 5), s), Zero>>,
            <<s, Rexp(1, -13), Zero>>} : s \in SpeedValues}

elem2rv_Call ==
    \E mu \in MuValues, el \in ElementValues :
        pc = "idle" /\ Call("elem2rv", <<mu, el>>, Quiet(elem2rv(mu, el)))

rv2elem_Call ==
    \E rVec \in PositionValues, vVec \in VelocityValues :
        pc = "idle" /\ Call("rv2elem", <<One, rVec, vVec>>, Quiet(rv2elem(One, rVec, vVec)))

\* rv2elem(mu, elem2rv(mu, E)): the state vector made from E converted back
RoundTrip_Call ==
    \E mu \in MuValues, el \in ElementValues :
        /\ pc = "idle"
        /\ \E sv \in {elem2rv(mu, el)} :
               Call("rv2elem(elem2rv)", <<mu, el>>, Quiet(rv2elem(mu, sv.rVec, sv.vVec)))

NextElem == elem2rv_Call \/ rv2elem_Call \/ RoundTrip_Call \/ Return

SpecElem == Init /\ [][NextElem]_vars

(***************************************************************************)
(* Claims about elem2rv and rv2elem                                        *)
(***************************************************************************)
elem2rv_Done == pc = "done" /\ fn = "elem2rv"

rv2elem_Done == pc = "done" /\ fn = "rv2elem"

RoundTrip_Done == pc = "done" /\ fn = "rv2elem(elem2rv)"

\* C1 (as claimed): with e == 1, whatever a is (a == 0 included), elem2rv takes
\* the rectilinear-elliptic or the parabolic branch, never the general branch
\* that computes p = a (1 - e e).
C1_UnitEccentricityNeverGeneral ==
    elem2rv_Done /\ REq(args[2].e, One) => ret.branch \in {"rectilinear", "parabolic"}

\* C1 (amended): with e == 1 elem2rv takes the rectilinear-elliptic branch
\* exactly when a > 0 and the parabolic branch, with p = 2 (-a), exactly when
\* a < 0; with a == 0 it takes the general branch, where p = a (1 - e e) = 0.
C1_UnitEccentricityBranch ==
    elem2rv_Done /\ REq(args[2].e, One) =>
        /\ ret.branch = "rectilinear" <=> RGt(args[2].a, Zero)
        /\ ret.branch = "parabolic" <=> RLt(args[2].a, Zero)
        /\ ret.branch = "parabolic" => REq(ret.p, RMul(Two, RNeg(args[2].a)))
        /\ ret.branch = "general" => REq(args[2].a, Zero) /\ REq(ret.p, Zero)

\* elem2rv has taken the parabolic branch for e == 1, a == -2
C1_Witness ==
    /\ elem2rv_Done /\ REq(args[2].e, One) /\ REq(args[2].a, RInt(-2))
    /\ ret.branch = "parabolic" /\ REq(ret.p, RInt(4))

\* the energy 2/r - v.v/mu of the state vector rv2elem was called with
rv2elem_ai == RSub(RDiv(Two, norm(args[2])), RDiv(dot(args[3], args[3]), args[1]))

\* the eccentricity norm(v x h - (mu/r) r) / mu of that state vector
rv2elem_e ==
    RDiv(norm(add(cross(args[3], cross(args[2], args[3])),
                  mult(RDiv(RNeg(args[1]), norm(args[2])), args[2]))), args[1])

\* the result is the parabola: a == -h h / (2 mu) <= 0 and e == 1 exactly
ParabolicResult ==
    /\ REq(ret.a, RNeg(RDiv(RMul(ret.h, ret.h), RMul(Two, args[1]))))
    /\ RLe(ret.a, Zero)
    /\ ret.e = One

\* the result is the conic of the energy: a == 1 / ai, e from the eccentricity vector
ConicResult == REq(ret.a, RDiv(One, rv2elem_ai)) /\ REq(ret.e, rv2elem_e)

\* C5 (as claimed): |ai| below 1e-12 gives the parabolic result, every other
\* ai gives a == 1 / ai and e == norm(v x h - (mu/r) r) / mu.
C5_ParabolicBelowTolerance ==
    rv2elem_Done =>
        IF RLt(RAbs(rv2elem_ai), eps) THEN ParabolicResult ELSE ConicResult

\* C5 (amended): |ai| > 1e-12 gives a == 1 / ai and e == norm(v x h - (mu/r) r) / mu;
\* every other ai, |ai| == 1e-12 included, gives the parabolic result
\* a == -h h / (2 mu) <= 0, e == 1.
C5_EnergyClassification ==
    rv2elem_Done =>
        IF RGt(RAbs(rv2elem_ai), eps) THEN ConicResult ELSE ParabolicResult

\* rv2elem has classified a state with |ai| exactly 1e-12 as parabolic
C5_Witness ==
    /\ rv2elem_Done /\ REq(RAbs(rv2elem_ai), eps)
    /\ ret.shape = "parabolic" /\ ret.e = One

\* C6 (as claimed): in the rectilinear case the returned anom is the eccentric
\* anomaly when ai > 0 and the hyperbolic anomaly otherwise, and in both
\* sub-cases it lies in [0, 2 pi).
C6_RectilinearAnomalyRange ==
    rv2elem_Done /\ RLt(ret.h, eps) =>
        /\ ret.anomaly = (IF RGt(rv2elem_ai, Zero) THEN "eccentric" ELSE "hyperbolic")
        /\ RLe(Zero, ret.anom) /\ RLt(ret.anom, TwoPi)

\* the elliptic sub-case alone does stay in [0, 2 pi)
C6_EllipticSubcaseRange ==
    rv2elem_Done /\ RLt(ret.h, eps) /\ RGt(rv2elem_ai, Zero) =>
        ret.anomaly = "eccentric" /\ RLe(Zero, ret.anom) /\ RLt(ret.anom, TwoPi)

\* the angular momentum r x v of the state vector rv2elem was called with
rv2elem_hVec == cross(args[2], args[3])

\* its eccentricity vector (times mu): v x h - (mu / r) r
rv2elem_cVec ==
    add(cross(args[3], rv2elem_hVec), mult(RDiv(RNeg(args[1]), norm(args[2])), args[2]))

\* the radial unit vector r / norm(r)
rv2elem_ir == mult(RDiv(One, norm(args[2])), args[2])

rv2elem_Elements == Elements(ret.a, ret.e, ret.i, ret.Omega, ret.omega, ret.anom)

\* C17 (as claimed): whenever rv2elem stores an eccentric anomaly in anom
\* (norm(r x v) < 1e-12 and 2/r - v.v/mu > 0), the a and e it returns satisfy
\* e == 1 and a > 0, and elem2rv applied to the returned elements takes its
\* rectilinear branch.
C17_RectilinearRegimesAgree ==
    rv2elem_Done /\ RLt(norm(rv2elem_hVec), eps) /\ RGt(rv2elem_ai, Zero) =>
        /\ ret.anomaly = "eccentric"
        /\ REq(ret.e, One) /\ RGt(ret.a, Zero)
        /\ elem2rv(args[1], rv2elem_Elements).branch = "rectilinear"

\* a body at rest at r = 2e12 (mu = 1): ai == 1e-12 > 0, anom holds the
\* eccentric anomaly, and a == 0 with e == 1 is returned, which elem2rv
\* does not take for rectilinear
C17_Witness ==
    /\ rv2elem_Done /\ REq(ret.h, Zero) /\ REq(rv2elem_ai, eps)
    /\ ret.anomaly = "eccentric"
    /\ REq(ret.e, One) /\ REq(ret.a, Zero)
    /\ elem2rv(args[1], rv2elem_Elements).branch = "general"

\* C18 (as claimed): in the rectilinear non-elliptic branch of rv2elem
\* (norm(r x v) < 1e-12 and ai = 2/r - v.v/mu <= 0, r > 0) the argument
\* r ai + 1 of arc_cosh is >= 1, and the hyperbolic anomaly returned in anom
\* is a defined real number.
C18_HyperbolicArgumentInDomain ==
    (/\ rv2elem_Done /\ RLt(norm(rv2elem_hVec), eps)
     /\ RLe(rv2elem_ai, Zero) /\ RGt(norm(args[2]), Zero))
    => /\ ret.anomaly = "hyperbolic"
       /\ RGe(ret.acoshArg, One)
       /\ IsFinite(ret.anom)

\* a rectilinear escape (r = 1, speed 2 along r, mu = 1): ai == -2, the
\* argument of arc_cosh is -1 and anom is not a number
C18_Witness ==
    /\ rv2elem_Done /\ REq(ret.h, Zero) /\ REq(rv2elem_ai, RInt(-2))
    /\ ret.anomaly = "hyperbolic"
    /\ REq(ret.acoshArg, RInt(-1)) /\ IsNaN(ret.anom)

\* the elements E of a finished round trip rv2elem(mu, elem2rv(mu, E))
RoundTrip_E == args[2]

\* E is well posed and not degenerate: an ellipse (0 < e < 1, a > 0), a
\* parabola (e == 1, a == -rp < 0) or a hyperbola (e > 1, a < 0), at an
\* anomaly where the radius p / (1 + e cos f) is positive; mu > 0
WellPosed ==
    /\ RGt(args[1], Zero)
    /\ \/ RGt(RoundTrip_E.e, Zero) /\ RLt(RoundTrip_E.e, One) /\ RGt(RoundTrip_E.a, Zero)
       \/ RGe(RoundTrip_E.e, One) /\ RLt(RoundTrip_E.a, Zero)
    /\ RGt(RAdd(One, RMul(RoundTrip_E.e, Cos(RoundTrip_E.anom))), Zero)

\* x and y are the same angle modulo 2 pi (both within one turn of each other)
SameAngle(x, y) ==
    REq(x, y) \/ REq(RAdd(x, TwoPi), y) \/ REq(x, RAdd(y, TwoPi))

MU_EARTH == <<3986, 1, 2>>

REQ_EARTH == <<64, 1, 2>>

J2_EARTH == <<1082, 1, -6>>

J3_EARTH == <<-252, 1, -8>>

J4_EARTH == <<-161, 1, -8>>

J5_EARTH == <<-15, 1, -8>>

J6_EARTH == <<57, 1, -8>>

\* pow(10., x): exact at the integers and linear between them, so positive,
\* finite and increasing for finite x
Exp10(x) ==
    IF IsNaN(x) THEN NaN
    ELSE IF IsInf(x) THEN (IF RSgn(x) > 0 THEN PInf ELSE Zero)
    ELSE The({RMul(<<1, 1, k>>, RAdd(One, RMul(RInt(9), RSub(x, RInt(k))))) :
                k \in {RFloor(x)}})

AtmosphericDensity(alt) ==
    IF RGt(alt, RInt(1000))
    THEN \* smooth exponential drop-off after 1000 km
         Exp10(RSub(RMul(Rexp(-7, -5), alt), R(14464, 1000)))
    ELSE \* scaled 6th order polynomial fit to the log of density
         The({Exp10(RSub(RSub(RAdd(RAdd(RSub(RSub(
                    RMul(R(34047, 100000), RPow(val, 6)),
                    RMul(R(5889, 10000), RPow(val, 5))),
                    RMul(R(5269, 10000), RPow(val, 4))),
                    RMul(R(10036, 10000), RPow(val, 3))),
                    RMul(R(60713, 100000), RPow(val, 2))),
                    RMul(R(23024, 10000), val)),
                    R(12575, 1000))) :
                val \in {RDiv(RSub(alt, R(5268, 10)), R(2928563, 10000))}})

\* the value AtmosphericDrag leaves in advec, and the densities it asked
\* AtmosphericDensity for
DragResult(advec, densities) == [advec |-> advec, density |-> densities]

\* AtmosphericDrag rejecting only negative altitudes
AtmosphericDrag_AcceptsSurface(Cd, A, m, rvec, vvec) ==
    The({IF RLt(alt, Zero)
         THEN Loud(DragResult(set3(NaN, NaN, NaN), <<>>),
                   <<"ERROR: atmosphericDrag() received rvec",
                     "The value of rvec should produce a positive altitude for the Earth.">>)
         ELSE The({The({Quiet(DragResult(mult(RDiv(ad, v), vvec), <<density>>)) :
                          ad \in {RDiv(RMul(RMul(RMul(<<-1, 2, 0>>, density),
                                                 RDiv(RMul(Cd, A), m)),
                                            RPow(RMul(v, RInt(1000)), 2)),
                                       RInt(1000))}}) :
                     density \in {AtmosphericDensity(alt)}}) :
            v \in {norm(vvec)}, alt \in {RSub(norm(rvec), REQ_EARTH)}})

AtmosphericDrag(Cd, A, m, rvec, vvec) ==
    \* find the altitude and velocity
    The({IF RLe(alt, Zero)
         THEN \* the orbital position is inside the earth
              Loud(DragResult(set3(NaN, NaN, NaN), <<>>),
                   <<"ERROR: atmosphericDrag() received rvec",
                     "The value of rvec should produce a positive altitude for the Earth.">>)
         ELSE The({The({Quiet(DragResult(mult(RDiv(ad, v), vvec), <<density>>)) :
                          \* the magnitude of the drag acceleration
                          ad \in {RDiv(RMul(RMul(RMul(<<-1, 2, 0>>, density),
                                                 RDiv(RMul(Cd, A), m)),
                                            RPow(RMul(v, RInt(1000)), 2)),
                                       RInt(1000))}}) :
                     density \in {AtmosphericDensity(alt)}}) :
            v \in {norm(vvec)}, alt \in {RSub(norm(rvec), REQ_EARTH)}})

\* the J2 .. J6 terms of JPerturb, with xr = x/r, yr = y/r, zr = z/r
JPerturb_J2(r, xr, yr, zr) ==
    mult(RMul(RMul(RMul(<<-3, 2, 0>>, J2_EARTH), RDiv(MU_EARTH, RPow(r, 2))),
              RPow(RDiv(REQ_EARTH, r), 2)),
         set3(RMul(RSub(One, RMul(RInt(5), RPow(zr, 2))), xr),
              RMul(RSub(One, RMul(RInt(5), RPow(zr, 2))), yr),
              RMul(RSub(RInt(3), RMul(RInt(5), RPow(zr, 2))), zr)))

JPerturb_J3(r, xr, yr, zr) ==
    mult(RMul(RMul(RMul(<<1, 2, 0>>, J3_EARTH), RDiv(MU_EARTH, RPow(r, 2))),
              RPow(RDiv(REQ_EARTH, r), 3)),
         set3(RMul(RMul(RInt(5), RSub(RMul(RInt(7), RPow(zr, 3)), RMul(RInt(3), zr))), xr),
              RMul(RMul(RInt(5), RSub(RMul(RInt(7), RPow(zr, 3)), RMul(RInt(3), zr))), yr),
              RMul(RInt(-3), RSub(RSub(RMul(RInt(10), RPow(zr, 2)),
                                       RMul(<<35, 3, 0>>, RPow(zr, 4))), One))))

JPerturb_J4(r, xr, yr, zr) ==
    mult(RMul(RMul(RMul(<<5, 8, 0>>, J4_EARTH), RDiv(MU_EARTH, RPow(r, 2))),
              RPow(RDiv(REQ_EARTH, r), 4)),
         set3(RMul(RAdd(RSub(RInt(3), RMul(RInt(42), RPow(zr, 2))),
                        RMul(RInt(63), RPow(zr, 4))), xr),
              RMul(RAdd(RSub(RInt(3), RMul(RInt(42), RPow(zr, 2))),
                        RMul(RInt(63), RPow(zr, 4))), yr),
              RMul(RAdd(RSub(RInt(15), RMul(RInt(70), RPow(zr, 2))),
                        RMul(RInt(63), RPow(zr, 4))), zr)))

JPerturb_J5(r, xr, yr, zr) ==
    mult(RMul(RMul(RMul(<<1, 8, 0>>, J5_EARTH), RDiv(MU_EARTH, RPow(r, 2))),
              RPow(RDiv(REQ_EARTH, r), 5)),
         set3(RMul(RMul(RInt(3), RAdd(RSub(RMul(RInt(35), zr), RMul(RInt(210), RPow(zr, 3))),
                                      RMul(RInt(231), RPow(zr, 5)))), xr),
              RMul(RMul(RInt(3), RAdd(RSub(RMul(RInt(35), zr), RMul(RInt(210), RPow(zr, 3))),
                                      RMul(RInt(231), RPow(zr, 5)))), yr),
              RNeg(RSub(RAdd(RSub(RInt(15), RMul(RInt(315), RPow(zr, 2))),
                             RMul(RInt(945), RPow(zr, 4))),
                        RMul(RInt(693), RPow(zr, 6))))))

JPerturb_J6(r, xr, yr, zr) ==
    mult(RMul(RMul(RMul(<<-1, 16, 0>>, J6_EARTH), RDiv(MU_EARTH, RPow(r, 2))),
              RPow(RDiv(REQ_EARTH, r), 6)),
         set3(RMul(RSub(RAdd(RSub(RInt(35), RMul(RInt(945), RPow(zr, 2))),
                             RMul(RInt(3465), RPow(zr, 4))),
                        RMul(RInt(3003), RPow(zr, 6))), xr),
              RMul(RSub(RAdd(RSub(RInt(35), RMul(RInt(945), RPow(zr, 2))),
                             RMul(RInt(3465), RPow(zr, 4))),
                        RMul(RInt(3003), RPow(zr, 6))), yr),
              RMul(RNeg(RSub(RAdd(RSub(RMul(RInt(3003), RPow(zr, 6)),
                                       RMul(RInt(4851), RPow(zr, 4))),
                                  RMul(RInt(2205), RPow(zr, 2))),
                             RInt(245))), zr)))

\* the value JPerturb leaves in ajtot, and the degrees of the terms it summed
JPerturbResult(ajtot, terms) == [ajtot |-> ajtot, terms |-> terms]

\* JPerturb_Sum adding the J3 term only from degree 4 on
JPerturb_Sum_J3FromDegree4(num, r, xr, yr, zr) ==
    The({The({The({The({IF num >= 6 THEN add(a5, JPerturb_J6(r, xr, yr, zr)) ELSE a5 :
                          a5 \in {IF num >= 5 THEN add(a4, JPerturb_J5(r, xr, yr, zr))
                                  ELSE a4}}) :
                     a4 \in {IF num >= 4 THEN add(a3, JPerturb_J4(r, xr, yr, zr)) ELSE a3}}) :
                a3 \in {IF num > 3 THEN add(a2, JPerturb_J3(r, xr, yr, zr)) ELSE a2}}) :
           a2 \in {JPerturb_J2(r, xr, yr, zr)}})

\* the terms J2 .. Jnum summed in the order of the source
JPerturb_Sum(num, r, xr, yr, zr) ==
    The({The({The({The({IF num >= 6 THEN add(a5, JPerturb_J6(r, xr, yr, zr)) ELSE a5 :
                          a5 \in {IF num >= 5 THEN add(a4, JPerturb_J5(r, xr, yr, zr))
                                  ELSE a4}}) :
                     a4 \in {IF num >= 4 THEN add(a3, JPerturb_J4(r, xr, yr, zr)) ELSE a3}}) :
                a3 \in {IF num >= 3 THEN add(a2, JPerturb_J3(r, xr, yr, zr)) ELSE a2}}) :
           a2 \in {JPerturb_J2(r, xr, yr, zr)}})

\* JPerturb with the upper limit of the degree off by one
JPerturb_AcceptsDegree7(rvec, num) ==
    IF num < 2 \/ num > 7
    THEN Loud(JPerturbResult(set3(NaN, NaN, NaN), <<>>),
              <<"ERROR: jPerturb() received num",
                "The value of num should be 2 <= num <= 6.">>)
    ELSE The({Quiet(JPerturbResult(
                    JPerturb_Sum(num, r, RDiv(rvec[1], r), RDiv(rvec[2], r), RDiv(rvec[3], r)),
                    [k \in 1..(IMin(num, 6) - 1) |-> k + 1])) :
                r \in {norm(rvec)}})

JPerturb(rvec, num) ==
    IF num < 2 \/ num > 6
    THEN Loud(JPerturbResult(set3(NaN, NaN, NaN), <<>>),
              <<"ERROR: jPerturb() received num",
                "The value of num should be 2 <= num <= 6.">>)
    ELSE The({Quiet(JPerturbResult(
                    JPerturb_Sum(num, r, RDiv(rvec[1], r), RDiv(rvec[2], r), RDiv(rvec[3], r)),
                    [k \in 1..(num - 1) |-> k + 1])) :
                r \in {norm(rvec)}})

(***************************************************************************)
(* Debye length.  The lookup arrays X and Y hold N_DEBYE_PARAMETERS         *)
(* samples, indexed from 0 as in the source.  A read at an index outside   *)
(* 0 .. N_DEBYE_PARAMETERS - 1 is a read of the stack past the array: it    *)
(* yields whatever double lies there, past[1] for X and past[2] for Y.     *)
(***************************************************************************)
N_DEBYE_PARAMETERS == 37

\* altitudes (km)
X ==
    <<200, 250, 300, 350, 400, 450, 500, 550,
      600, 650, 700, 750, 800, 850, 900, 950, 1000, 1050, 1100, 1150,
      1200, 1250, 1300, 1350, 1400, 1450, 1500, 1550, 1600, 1650, 1700,
      1750, 1800, 1850, 1900, 1950, 2000>>

\* Debye lengths (m), in units of 1E-05
Y ==
    <<564, 392, 324, 359,
      404, 428, 454, 530, 655, 730, 831,
      838, 845, 984, 1220, 1370, 1590, 1750,
      1950, 2090, 2250, 2250, 2250, 2470, 2760,
      2760, 2760, 2760, 2760, 2760, 2760, 3210,
      3960, 3960, 3960, 3960, 3960>>

\* X[i] and Y[i] as the running program reads them
X_at(i, past) == IF i \in 0..(N_DEBYE_PARAMETERS - 1) THEN RInt(X[i + 1]) ELSE past[1]

Y_at(i, past) == IF i \in 0..(N_DEBYE_PARAMETERS - 1) THEN Rexp(Y[i + 1], -5) ELSE past[2]

\* the value Debye returns, and the array indexes it read on the way
DebyeResult(debyedist, reads) == [debyedist |-> debyedist, reads |-> reads]

\* for(i = 0; i < N_DEBYE_PARAMETERS - 1; i++) if(X[i+1] > alt) break;
RECURSIVE Debye_search(_, _)
Debye_search(alt, i) ==
    IF i < N_DEBYE_PARAMETERS - 1
    THEN IF RGt(RInt(X[i + 2]), alt) THEN i ELSE Debye_search(alt, i + 1)
    ELSE i

\* interpolation of data
Debye_interpolate(alt, past) ==
    The({The({Quiet(DebyeResult(
                    RAdd(Y_at(i, past), RMul(a, RSub(Y_at(i + 1, past), Y_at(i, past)))),
                    (1..IMin(i + 1, N_DEBYE_PARAMETERS - 1)) \cup {i, i + 1})) :
                a \in {RDiv(RSub(alt, X_at(i, past)),
                            RSub(X_at(i + 1, past), X_at(i, past)))}}) :
           i \in {Debye_search(alt, 0)}})

Debye(alt, past) ==
    IF RGt(alt, RInt(2000)) /\ RLe(alt, RInt(30000))
    THEN \* flat Debye length for altitudes above 2000 km
         Debye_interpolate(RInt(2000), past)
    ELSE IF RGt(alt, RInt(30000)) /\ RLe(alt, RInt(35000))
    THEN Quiet(DebyeResult(RSub(RMul(R(1, 10), alt), R(29997, 10)), {}))
    ELSE IF RLt(alt, RInt(200)) \/ RGt(alt, RInt(35000))
    THEN Loud(DebyeResult(NaN, {}),
              <<"ERROR: Debye() received alt",
                "The value of alt should be in the range of [200 35000].">>)
    ELSE Debye_interpolate(alt, past)

(***************************************************************************)
(* Calls of the perturbation functions                                     *)
(***************************************************************************)
\* altitudes: below the fit, at its centre, at and beyond the 1000 km switch,
\* and not a number
AltitudeValues ==
    {RInt(-5), Zero, RInt(100), R(5268, 10), RInt(1000), RInt(1001), RInt(2000), NaN}

\* drag coefficient, area (m^2) and mass (kg)
CdValues == {Two, R(22, 10)}

AreaValues == {One, RInt(10)}

MassValues == {RInt(100), RInt(500), Zero}

\* positions (km): the centre, inside the Earth, on its surface, at 400, 600
\* and 1600 km of altitude, and not a number
EarthPositions ==
    {<<Zero, Zero, Zero>>, <<RInt(6000), Zero, Zero>>, <<REQ_EARTH, Zero, Zero>>,
     <<Zero, REQ_EARTH, Zero>>, <<Zero, RInt(6800), Zero>>, <<RInt(7000), Zero, Zero>>,
     <<Zero, Zero, RInt(8000)>>, <<RInt(4200), RInt(5600), Zero>>,
     <<RInt(2000), RInt(4000), RInt(4000)>>, <<NaN, Zero, Zero>>}

\* velocities (km/s): at rest, along the axes, off the axes, slow
EarthVelocities ==
    {<<Zero, Zero, Zero>>, <<R(75, 10), Zero, Zero>>, <<Zero, RInt(-7), Zero>>,
     <<One, Two, Two>>, <<Zero, Zero, Rexp(1, -3)>>, <<RInt(-3), Zero, RInt(4)>>}

\* degrees: DegreeMargin values on each side of the accepted 2 .. 6
DegreeMargin == 3

DegreeValues == (2 - DegreeMargin)..(6 + DegreeMargin)

\* altitudes for Debye (km): below, on and above each of the limits 200,
\* 2000, 30000 and 35000, between two samples, and not a number
DebyeAltitudes ==
    {RInt(-5), R(1999, 10), RInt(200), RInt(225), RInt(1000), RInt(1975), RInt(1999),
     RInt(2000), RInt(2001), RInt(9000), RInt(30000), RInt(30010), RInt(34000),
     RInt(35000), RInt(35010), NaN}

\* what a read past the end of X, and of Y, can find on the stack: a sample
\* of the other array, the last sample again, a tiny number, an infinity,
\* not a number
PastEndValues ==
    {<<gx, gy>> : gx \in {Rexp(564, -5), RInt(2000), NaN},
                  gy \in {RInt(200), Rexp(1, -300), PInf, NaN}}

Debye_Call ==
    \E alt \in DebyeAltitudes, past \in PastEndValues :
        pc = "idle" /\ Call("Debye", <<alt, past>>, Debye(alt, past))

AtmosphericDensity_Call ==
    \E alt \in AltitudeValues :
        pc = "idle" /\ Call("AtmosphericDensity", <<alt>>, Quiet(AtmosphericDensity(alt)))

AtmosphericDrag_Call ==
    \E Cd \in CdValues, A \in AreaValues, m \in MassValues,
       rvec \in EarthPositions, vvec \in EarthVelocities :
        pc = "idle" /\ Call("AtmosphericDrag", <<Cd, A, m, rvec, vvec>>,
                            AtmosphericDrag(Cd, A, m, rvec, vvec))

JPerturb_Call ==
    \E rvec \in EarthPositions, num \in DegreeValues :
        pc = "idle" /\ Call("JPerturb", <<rvec, num>>, JPerturb(rvec, num))

NextPert ==
    AtmosphericDensity_Call \/ AtmosphericDrag_Call \/ JPerturb_Call \/ Debye_Call \/ Return

SpecPert == Init /\ [][NextPert]_vars

(***************************************************************************)
(* Claims about the perturbation accelerations                             *)
(***************************************************************************)
AtmosphericDrag_Done == pc = "done" /\ fn = "AtmosphericDrag"

JPerturb_Done == pc = "done" /\ fn = "JPerturb"

\* the altitude norm(rvec) - REQ_EARTH of the finished AtmosphericDrag call
DragAltitude == RSub(norm(args[4]), REQ_EARTH)

\* the error outcome of AtmosphericDrag: NaN in all three components and the
\* two lines of the diagnostic
DragErrorOutcome ==
    /\ AllNaN(ret.advec)
    /\ Len(diag) = 2 /\ diag[1] = "ERROR: atmosphericDrag() received rvec"

\* C8: AtmosphericDrag takes its error outcome exactly when the altitude
\* norm(rvec) - REQ_EARTH is <= 0; then the output is NaN in all three
\* components, the diagnostic is written, the density model is not evaluated
\* and the call returns; with an altitude > 0 nothing is written and the
\* density is evaluated once.
C8_DragErrorIff ==
    AtmosphericDrag_Done =>
        /\ DragErrorOutcome <=> RLe(DragAltitude, Zero)
        /\ RLe(DragAltitude, Zero) => ret.density = <<>>
        /\ RGt(DragAltitude, Zero) => diag = <<>> /\ Len(ret.density) = 1

\* a position on the surface (altitude exactly 0) has been rejected
C8_Witness ==
    /\ AtmosphericDrag_Done /\ REq(DragAltitude, Zero)
    /\ AllNaN(ret.advec) /\ Len(diag) = 2 /\ ret.density = <<>>

\* k = 0.5 density (Cd A / m) norm(v) 1000 of the finished AtmosphericDrag call
DragFactor ==
    RMul(RMul(RMul(RMul(<<1, 2, 0>>, ret.density[1]), RDiv(RMul(args[1], args[2]), args[3])),
              norm(args[5])), RInt(1000))

\* C9 (as claimed): with an altitude > 0 and m # 0, for every finite velocity
\* the output has no NaN component and is -k vvec with
\* k = 0.5 density (Cd A / m) norm(v) 1000 >= 0.
C9_DragOpposesVelocity ==
    AtmosphericDrag_Done /\ RGt(DragAltitude, Zero) /\ ~REq(args[3], Zero) =>
        /\ NoNaN(ret.advec)
        /\ RGe(DragFactor, Zero)
        /\ \A j \in 1..3 : Near(ret.advec[j], RNeg(RMul(DragFactor, args[5][j])))

\* a spacecraft at rest above the surface: the drag is NaN in all components
C9_Witness ==
    /\ AtmosphericDrag_Done /\ RGt(DragAltitude, Zero) /\ ~REq(args[3], Zero)
    /\ REq(norm(args[5]), Zero)
    /\ AllNaN(ret.advec) /\ diag = <<>>

\* C10: JPerturb rejects exactly the degrees outside 2 .. 6: then ajtot is
\* NaN in all three components, the diagnostic is written, no harmonic term
\* has been summed and the call returns; for a degree in 2 .. 6 nothing is
\* written and the terms J2 .. Jnum have been summed.
C10_DegreeOutsideRangeRejected ==
    JPerturb_Done =>
        IF args[2] < 2 \/ args[2] > 6
        THEN /\ AllNaN(ret.ajtot)
             /\ Len(diag) = 2 /\ diag[1] = "ERROR: jPerturb() received num"
             /\ ret.terms = <<>>
        ELSE /\ diag = <<>>
             /\ ret.terms = [k \in 1..(args[2] - 1) |-> k + 1]

\* JPerturb has rejected num = 7
C10_Witness ==
    /\ JPerturb_Done /\ args[2] = 7
    /\ AllNaN(ret.ajtot) /\ Len(diag) = 2 /\ ret.terms = <<>>

\* the closed-form term of degree k at the position rvec
JPerturb_Term(k, rvec) ==
    The({The({CASE k = 2 -> JPerturb_J2(r, xr, yr, zr)
                []   k = 3 -> JPerturb_J3(r, xr, yr, zr)
                []   k = 4 -> JPerturb_J4(r, xr, yr, zr)
                []   k = 5 -> JPerturb_J5(r, xr, yr, zr)
                []   k = 6 -> JPerturb_J6(r, xr, yr, zr) :
                xr \in {RDiv(rvec[1], r)}, yr \in {RDiv(rvec[2], r)},
                zr \in {RDiv(rvec[3], r)}}) :
           r \in {norm(rvec)}})

\* C11: for every position, JPerturb(rvec, 2) is the J2 term alone and, for
\* num in 3 .. 6, JPerturb(rvec, num) is JPerturb(rvec, num - 1) plus the one
\* closed-form term of degree num; the terms summed for degree num are
\* J2 .. Jnum, each once.
C11_OneMoreTermPerDegree ==
    JPerturb_Done /\ args[2] \in 2..6 =>
        /\ ret.terms = [k \in 1..(args[2] - 1) |-> k + 1]
        /\ IF args[2] = 2
           THEN SameVector(ret.ajtot, JPerturb_Term(2, args[1]))
           ELSE SameVector(ret.ajtot,
                           add(JPerturb(args[1], args[2] - 1).val.ajtot,
                               JPerturb_Term(args[2], args[1])))

\* JPerturb of degree 3 on the equator: the J2 term has no z component there,
\* the z component returned is that of the J3 term
C11_Witness ==
    /\ JPerturb_Done /\ args[2] = 3 /\ REq(args[1][3], Zero) /\ NoNaN(ret.ajtot)
    /\ REq(JPerturb(args[1], 2).val.ajtot[3], Zero)
    /\ ~REq(ret.ajtot[3], Zero)
    /\ REq(ret.ajtot[3], JPerturb_Term(3, args[1])[3])

Debye_Done == pc = "done" /\ fn = "Debye"

\* the error outcome of Debye: NaN returned and the two lines of the diagnostic
DebyeErrorOutcome ==
    /\ IsNaN(ret.debyedist)
    /\ Len(diag) = 2 /\ diag[1] = "ERROR: Debye() received alt"

\* the finished Debye call reached the interpolation step
DebyeInterpolated == Debye_Done /\ ret.reads # {}

\* C12 (as claimed): Debye takes its error outcome exactly when alt < 200 or
\* alt > 35000; for every alt in [200, 35000], both endpoints included, the
\* value returned is not NaN, and for 30000 < alt <= 35000 it is the linear
\* extrapolation 0.1 alt - 2999.7.
C12_DebyeErrorIffOutOfRange ==
    Debye_Done =>
        /\ DebyeErrorOutcome <=> (RLt(args[1], RInt(200)) \/ RGt(args[1], RInt(35000)))
        /\ RGe(args[1], RInt(200)) /\ RLe(args[1], RInt(35000)) => ~IsNaN(ret.debyedist)
        /\ RGt(args[1], RInt(30000)) /\ RLe(args[1], RInt(35000)) =>
                REq(ret.debyedist, RSub(RMul(R(1, 10), args[1]), R(29997, 10)))

\* Debye(2000) has returned NaN without a diagnostic: the sample it read
\* past the end of the table was not a number
C12_Witness ==
    /\ Debye_Done /\ REq(args[1], RInt(2000))
    /\ IsNaN(ret.debyedist) /\ diag = <<>>

\* C13 (as claimed): for every alt with 2000 < alt <= 30000 the result is the
\* last table value Y[36] = 3.96E-02, the result for alt == 2000, and it is
\* computed from entries of the 37-sample table only.
C13_ClampedFlatAboveTable ==
    Debye_Done /\ RGt(args[1], RInt(2000)) /\ RLe(args[1], RInt(30000)) =>
        /\ REq(ret.debyedist, Rexp(396, -4))
        /\ REq(ret.debyedist, Y_at(N_DEBYE_PARAMETERS - 1, args[2]))
        /\ SameValue(ret.debyedist, Debye(RInt(2000), args[2]).val.debyedist)
        /\ ret.reads \subseteq 0..(N_DEBYE_PARAMETERS - 1)

\* Debye(9000) has been clamped to 2000 and has read X[37] and Y[37]
C13_Witness ==
    /\ Debye_Done /\ REq(args[1], RInt(9000))
    /\ N_DEBYE_PARAMETERS \in ret.reads
    /\ ~REq(ret.debyedist, Rexp(396, -4))

\* C16 (as claimed): every read of X and Y uses an index in 0 .. 36; for every
\* alt that reaches the interpolation step the search ends with an index i
\* such that i and i + 1 are both valid.
C16_TableIndexInRange ==
    DebyeInterpolated =>
        /\ ret.reads \subseteq 0..(N_DEBYE_PARAMETERS - 1)
        /\ Debye_search(IF RGt(args[1], RInt(2000)) THEN RInt(2000) ELSE args[1], 0) + 1
                \in 0..(N_DEBYE_PARAMETERS - 1)

\* Debye(2000) has ended its search at i = 36 and read index 37
C16_Witness ==
    /\ DebyeInterpolated /\ REq(args[1], RInt(2000))
    /\ Debye_search(args[1], 0) = N_DEBYE_PARAMETERS - 1
    /\ N_DEBYE_PARAMETERS \in ret.reads

Next == NextAnom \/ NextElem \/ NextPert

Spec == Init /\ [][Next]_vars
====
